---- MODULE Spec2Model ----
(***************************************************************************)
(* ecs-watch (src/src/main.rs): poll an ECS cluster, summarise its tasks,  *)
(* and print the summary whenever it changes.                              *)
(*                                                                         *)
(* Conventions                                                             *)
(*   Option<T>   a sequence of length 0 (None) or 1 (Some(v))              *)
(*   String      a sequence of one-character strings                        *)
(*   f64 time    a fixed-point integer, SubMs units per millisecond         *)
(*   NaiveDateTime  [secs, millis]: whole seconds and the sub-second field  *)
(*               in milliseconds (the code stores 1_000_000 * millis ns)    *)
(***************************************************************************)
EXTENDS Integers, Sequences, FiniteSets, TLC

VARIABLES
    args,         \* Args: [detail, one_shot]                      (l.16-38)
    pc,           \* await point the program is suspended at
    phase,        \* which caller owns the pending remote call
    now,          \* wall clock, whole seconds (Utc::now().timestamp())
    cycle,        \* number of task_summary calls started
    list_resp,    \* latest response of list_tasks                 (l.75-78)
    same_list,    \* latest list response equals the one before it
    desc_req,     \* task IDs of the latest DescribeTasksRequest   (l.193-197)
    desc_resp,    \* latest response of describe_tasks             (l.199-202)
    same_desc,    \* latest describe response equals the one before it
    mapped,       \* task_list as collected, before sort_by        (l.203-220)
    task_list,    \* latest value returned by task_summary         (l.222)
    old_summary,  \* watch's stored snapshot                       (l.121,130)
    stdout,       \* latest output of print_summary                (l.90-110)
    renders,      \* number of print_summary calls
    dumps,        \* number of raw payload dumps by detailed       (l.236)
    error,        \* Error variant returned to main, or "none"     (l.40-58)
    times,        \* newest_time: its argument                     (l.142)
    fs,           \* newest_time: the sorted present values        (l.143-148)
    newest,       \* newest_time: Option of its return value       (l.151)
    payload,      \* task_summary: the describe response it maps   (l.203)
    summarized,   \* task_summary: Option of its result            (l.222)
    image_ref,    \* short_image: its argument                     (l.166)
    short,        \* short_image: Option of its return value       (l.166)
    wall_ms,      \* sleep_duration: Utc::now() in milliseconds    (l.114)
    duration,     \* sleep_duration: Option of its result, in ms   (l.117)
    stamp,        \* naive_date_time: its argument                 (l.136)
    converted     \* naive_date_time: Option of its return value   (l.139)

vars == <<args, pc, phase, now, cycle, list_resp, same_list, desc_req,
          desc_resp, same_desc, mapped, task_list, old_summary, stdout,
          renders, dumps, error, times, fs, newest, payload, summarized,
          image_ref, short, wall_ms, duration, stamp, converted>>

progVars == <<args, pc, phase, now, cycle, list_resp, same_list, desc_req,
              desc_resp, same_desc, mapped, task_list, old_summary, stdout,
              renders, dumps, error>>

newestVars == <<times, fs, newest>>

\* the variables of the functions exercised on their own
unitVars == <<newestVars, payload, summarized, image_ref, short, wall_ms,
              duration, stamp, converted>>

(***************************************************************************)
(* Bounds of the model.                                                    *)
(***************************************************************************)
\* longest task-ID list the list call returns
MaxTasks == 2
\* seconds the wall clock may advance past its initial value
MaxTicks == 4
\* fixed-point resolution of an f64 timestamp: units per millisecond
SubMs == 2

(***************************************************************************)
(* Program constants.                                                      *)
(***************************************************************************)
MillisPerSec == 1000
SecsPerHour == 3600
Cadence == 2

UnitsPerSec == MillisPerSec * SubMs

None == <<>>
Some(v) == <<v>>
IsSome(o) == o # <<>>
Unwrap(o) == o[1]

Last(s) == s[Len(s)]
Front(s) == SubSeq(s, 1, Len(s) - 1)

(***************************************************************************)
(* Timestamps.                                                             *)
(***************************************************************************)
\* f64 value of s seconds and ms milliseconds
Stamp(s, ms) == (s * MillisPerSec + ms) * SubMs

\* `x as i64` on an f64: truncation toward zero
TruncSecs(t) ==
    IF t >= 0 THEN t \div UnitsPerSec ELSE -((-t) \div UnitsPerSec)

\* f64::round (half away from zero) of a fraction given in units, in
\* milliseconds; `as u32` saturates a negative value to 0
RoundMillis(frac) ==
    IF frac >= 0 THEN (2 * frac + SubMs) \div (2 * SubMs) ELSE 0

naive_date_time(timestamp) ==
    LET seconds == TruncSecs(timestamp)
        milliseconds == RoundMillis(timestamp - seconds * UnitsPerSec)
    IN  [secs |-> seconds, millis |-> milliseconds]

\* NaiveDateTime's derived ordering: date and time of day, then sub-second
DateTimeLt(a, b) ==
    \/ a.secs < b.secs
    \/ a.secs = b.secs /\ a.millis < b.millis

DateTimeLe(a, b) == ~DateTimeLt(b, a)

\* a - b as a chrono::Duration, in milliseconds
DurationSince(a, b) ==
    (a.secs - b.secs) * MillisPerSec + (a.millis - b.millis)

\* fs.sort_by(partial_cmp): insertion of x into an ascending sequence
InsertTime(x, s) ==
    LET k == Cardinality({i \in 1..Len(s) : s[i] <= x})
    IN  SubSeq(s, 1, k) \o <<x>> \o SubSeq(s, k + 1, Len(s))

RECURSIVE SortTimes(_)
SortTimes(s) ==
    IF s = <<>> THEN <<>> ELSE InsertTime(Last(s), SortTimes(Front(s)))

\* times.iter().filter(is_some).map(unwrap).collect()
RECURSIVE PresentTimes(_)
PresentTimes(ts) ==
    IF ts = <<>> THEN <<>>
    ELSE PresentTimes(Front(ts)) \o
         (IF IsSome(Last(ts)) THEN <<Unwrap(Last(ts))>> ELSE <<>>)

\* newest_time taking the first of the sorted values instead of the last
LastOrNow_first(sorted, clock) ==
    IF sorted = <<>> THEN clock * UnitsPerSec ELSE sorted[1]

\* fs.last().unwrap_or(&now)
LastOrNow(sorted, clock) ==
    IF sorted = <<>> THEN clock * UnitsPerSec ELSE Last(sorted)

newest_time(ts, clock) ==
    naive_date_time(LastOrNow(SortTimes(PresentTimes(ts)), clock))

(***************************************************************************)
(* Identifier shortening.                                                  *)
(***************************************************************************)
Slash == "/"

\* str::split('/'): always at least one segment, "" splits into <<"">>
RECURSIVE Split(_)
Split(s) ==
    IF \A i \in 1..Len(s) : s[i] # Slash THEN <<s>>
    ELSE LET i == CHOOSE j \in 1..Len(s) :
                      s[j] = Slash /\ \A k \in 1..(j - 1) : s[k] # Slash
         IN  <<SubSeq(s, 1, i - 1)>> \o Split(SubSeq(s, i + 1, Len(s)))

\* [&str]::join("/")
RECURSIVE Join(_)
Join(segs) ==
    IF segs = <<>> THEN <<>>
    ELSE IF Len(segs) = 1 THEN segs[1]
    ELSE segs[1] \o <<Slash>> \o Join(Tail(segs))

unwrap_or_default(o) == IF IsSome(o) THEN Unwrap(o) ELSE <<>>

task_version(task_definition_arn) ==
    Last(Split(unwrap_or_default(task_definition_arn)))

\* short_image keeping the last segment only, as task_version does
short_image_last(image) ==
    IF IsSome(image) THEN Last(Split(Unwrap(image))) ELSE <<>>

short_image(image) ==
    IF IsSome(image)
    THEN IF Len(Split(Unwrap(image))) > 1
         THEN Join(Tail(Split(Unwrap(image))))
         ELSE Unwrap(image)
    ELSE <<>>

\* images() leaving out the containers that report no image
images_skip_absent(containers) ==
    LET cs == SelectSeq(unwrap_or_default(containers),
                        LAMBDA c : IsSome(c.image))
    IN  [i \in 1..Len(cs) |-> short_image(cs[i].image)]

images(containers) ==
    LET cs == unwrap_or_default(containers)
    IN  [i \in 1..Len(cs) |-> short_image(cs[i].image)]

(***************************************************************************)
(* The ECS API as the program sees it.                                     *)
(***************************************************************************)
Task(ts, arn, status, containers) ==
    [connectivity_at |-> ts[1], created_at |-> ts[2],
     execution_stopped_at |-> ts[3], pull_started_at |-> ts[4],
     pull_stopped_at |-> ts[5], started_at |-> ts[6],
     task_definition_arn |-> arn, last_status |-> status,
     containers |-> containers]

Container(image) == [image |-> image]

Clock0 == 3 * SecsPerHour
MaxNow == Clock0 + MaxTicks

\* the task records the describe call draws its answers from: TaskA last
\* active an hour before the run starts, TaskB as it starts, TaskE without
\* any event time
T0 == Stamp(Clock0 - SecsPerHour, 0)
T1 == Stamp(Clock0, 0)

TaskA ==
    Task(<<Some(T0 - SubMs), Some(T0), None, None, None, None>>,
         Some(<<"a", "/", "f">>), Some(<<"R">>),
         Some(<<Container(Some(<<"r", "/", "n">>))>>))
TaskB ==
    Task(<<None, Some(T0), None, Some(T0 + SubMs), Some(T1), None>>,
         None, None,
         Some(<<Container(None), Container(Some(<<"n">>))>>))
TaskE ==
    Task(<<None, None, None, None, None, None>>,
         Some(<<"a", "/">>), Some(<<"S">>), None)

TaskPool == {TaskA, TaskB, TaskE}

RECURSIVE SeqsUpTo(_, _)
SeqsUpTo(S, n) ==
    IF n = 0 THEN {<<>>}
    ELSE LET shorter == SeqsUpTo(S, n - 1)
         IN  shorter \cup {Append(s, x) : s \in shorter, x \in S}

\* task-ID lists: distinct IDs, in the order the service lists them
ArnLists ==
    {s \in SeqsUpTo(1..MaxTasks, MaxTasks) :
        \A i, j \in 1..Len(s) : i < j => s[i] < s[j]}

\* Result<ListTasksResponse, RusotoError<ListTasksError>>
ListResponses ==
    {[ok |-> FALSE, task_arns |-> None], [ok |-> TRUE, task_arns |-> None]}
    \cup {[ok |-> TRUE, task_arns |-> Some(l)] : l \in ArnLists}

\* Result<DescribeTasksResponse, RusotoError<DescribeTasksError>>: at most
\* one record per requested ID
DescribeResponses(request) ==
    {[ok |-> FALSE, tasks |-> None], [ok |-> TRUE, tasks |-> None]}
    \cup {[ok |-> TRUE, tasks |-> Some(l)] :
             l \in SeqsUpTo(TaskPool, Len(request))}

Ok(v) == [ok |-> TRUE, val |-> v, err |-> "none"]
Err(e) == [ok |-> FALSE, val |-> <<>>, err |-> e]

\* tasks() taking an empty task-ID list for a missing one
tasks_empty_is_missing(response) ==
    IF ~response.ok THEN Err("TaskListLookup")
    ELSE IF IsSome(response.task_arns) /\ Unwrap(response.task_arns) # <<>>
         THEN Ok(Unwrap(response.task_arns))
    ELSE Err("ClusterNotFound")

\* tasks() taking a missing task-ID list for an empty one
tasks_missing_is_empty(response) ==
    IF ~response.ok THEN Err("TaskListLookup")
    ELSE Ok(unwrap_or_default(response.task_arns))

\* tasks(): the list step
tasks(response) ==
    IF ~response.ok THEN Err("TaskListLookup")
    ELSE IF IsSome(response.task_arns) THEN Ok(Unwrap(response.task_arns))
    ELSE Err("ClusterNotFound")

(***************************************************************************)
(* task_summary.                                                           *)
(***************************************************************************)
TaskSummary(task, clock) ==
    [date_time |->
         newest_time(<<task.connectivity_at, task.created_at,
                       task.execution_stopped_at, task.pull_started_at,
                       task.pull_stopped_at, task.started_at>>, clock),
     task_version |-> task_version(task.task_definition_arn),
     last_status |-> unwrap_or_default(task.last_status),
     images |-> images(task.containers)]

\* result.tasks.unwrap_or_default().iter().map(..).collect(); clocks[i] is
\* the wall clock newest_time reads for the i-th record
Collect(response, clocks) ==
    LET records == unwrap_or_default(response.tasks)
    IN  [i \in 1..Len(records) |-> TaskSummary(records[i], clocks[i])]

\* a comparator that puts a summary before the equal ones already placed
ByDateTime_strict(a, b) == DateTimeLt(a.date_time, b.date_time)

\* the comparator of task_list.sort_by
ByDateTime(a, b) == DateTimeLe(a.date_time, b.date_time)

\* stable insertion: x goes after every element that does not follow it
InsertTask(x, s) ==
    LET k == Cardinality({i \in 1..Len(s) : ByDateTime(s[i], x)})
    IN  SubSeq(s, 1, k) \o <<x>> \o SubSeq(s, k + 1, Len(s))

RECURSIVE sort_by(_)
sort_by(s) ==
    IF s = <<>> THEN <<>> ELSE InsertTask(Last(s), sort_by(Front(s)))

\* the wall-clock readings of one pass over n records: the clock may step
\* to the next second between two readings
ClockReadings(n) ==
    {[i \in 1..n |-> IF i <= k THEN now ELSE now + 1] :
        k \in (IF now < MaxNow THEN 0..n ELSE {n})}

ClockAfter(clocks) == IF clocks = <<>> THEN now ELSE Last(clocks)

(***************************************************************************)
(* print_summary.                                                          *)
(***************************************************************************)
\* format!("{}  {:14} {} {:?}", ..): "%F %T" prints whole seconds only
Line(task) ==
    [time |-> task.date_time.secs, status |-> task.last_status,
     version |-> task.task_version, images |-> task.images]

\* the look-ahead with `>` for `>=`
Underlined_strict(summary, index) ==
    /\ index + 1 <= Len(summary)
    /\ DurationSince(summary[index + 1].date_time, summary[index].date_time)
           > SecsPerHour * MillisPerSec

Underlined(summary, index) ==
    /\ index + 1 <= Len(summary)
    /\ DurationSince(summary[index + 1].date_time, summary[index].date_time)
           >= SecsPerHour * MillisPerSec

print_summary(summary, clock) ==
    [header |-> clock,
     lines |-> [i \in 1..Len(summary) |->
                   [text |-> Line(summary[i]),
                    underline |-> Underlined(summary, i)]]]

NoOutput == [header |-> 0, lines |-> <<>>]

(***************************************************************************)
(* The program: main, detailed, the one-shot branch and watch.  One action *)
(* per resumption of the single task: each runs from one await to the next.*)
(***************************************************************************)
NoResponse == [ok |-> FALSE, task_arns |-> None]
NoPayload == [ok |-> FALSE, tasks |-> None]

\* a function exercised on its own has not been given its argument
NewestIdle == times = <<>> /\ fs = <<>> /\ newest = <<>>
SummaryIdle == payload = NoPayload /\ summarized = <<>>
ImageIdle == image_ref = <<>> /\ short = <<>>
SleepIdle == wall_ms = 0 /\ duration = <<>>
ConvertIdle == stamp = 0 /\ converted = <<>>

\* the program is not running: a function is exercised on its own at `at`
ProgIdle(at) ==
    /\ args = [detail |-> FALSE, one_shot |-> TRUE]
    /\ pc = at
    /\ phase = "main"
    /\ cycle = 0
    /\ list_resp = NoResponse
    /\ same_list = FALSE
    /\ desc_req = <<>>
    /\ desc_resp = NoPayload
    /\ same_desc = FALSE
    /\ mapped = <<>>
    /\ task_list = <<>>
    /\ old_summary = <<>>
    /\ stdout = NoOutput
    /\ renders = 0
    /\ dumps = 0
    /\ error = "none"

Init ==
    /\ args \in [detail : BOOLEAN, one_shot : BOOLEAN]
    /\ pc = "start"
    /\ phase = "main"
    /\ now = Clock0
    /\ cycle = 0
    /\ list_resp = NoResponse
    /\ same_list = FALSE
    /\ desc_req = <<>>
    /\ desc_resp = NoPayload
    /\ same_desc = FALSE
    /\ mapped = <<>>
    /\ task_list = <<>>
    /\ old_summary = <<>>
    /\ stdout = NoOutput
    /\ renders = 0
    /\ dumps = 0
    /\ error = "none"
    /\ NewestIdle
    /\ SummaryIdle
    /\ ImageIdle
    /\ SleepIdle
    /\ ConvertIdle

\* main after the optional detailed(): the branch on args.one_shot
SummaryPhase == IF args.one_shot THEN "one_shot" ELSE "first"

\* a main that does not look at args.detail
Main_skip_detail ==
    /\ pc = "start"
    /\ pc' = "list"
    /\ phase' = SummaryPhase
    /\ cycle' = 1
    /\ UNCHANGED <<args, now, list_resp, same_list, desc_req, desc_resp,
                   same_desc, mapped, task_list, old_summary, stdout,
                   renders, dumps, error, unitVars>>

\* main up to its first await: the list call of detailed or of task_summary
Main ==
    /\ pc = "start"
    /\ pc' = "list"
    /\ phase' = (IF args.detail THEN "detail" ELSE SummaryPhase)
    /\ cycle' = (IF args.detail THEN 0 ELSE 1)
    /\ UNCHANGED <<args, now, list_resp, same_list, desc_req, desc_resp,
                   same_desc, mapped, task_list, old_summary, stdout,
                   renders, dumps, error, unitVars>>

\* the list call returns: tasks() yields the IDs or an error, `?` in the
\* caller and in main carries an error to the exit
ListTasks ==
    /\ pc = "list"
    /\ \E response \in ListResponses :
          LET result == tasks(response)
          IN  /\ list_resp' = response
              /\ same_list' = (response = list_resp)
              /\ IF result.ok
                 THEN /\ desc_req' = result.val
                      /\ pc' = "describe"
                      /\ error' = error
                 ELSE /\ desc_req' = desc_req
                      /\ pc' = "exit_err"
                      /\ error' = result.err
    /\ UNCHANGED <<args, phase, now, cycle, desc_resp, same_desc, mapped,
                   task_list, old_summary, stdout, renders, dumps,
                   unitVars>>

\* a describe failure that watch's loop swallows, fetching again
DescribeFails_retry ==
    /\ pc = "describe"
    /\ \E response \in DescribeResponses(desc_req) :
          /\ ~response.ok
          /\ desc_resp' = response
          /\ same_desc' = (response = desc_resp)
    /\ pc' = (IF phase = "loop" THEN "list" ELSE "exit_err")
    /\ error' = (IF phase = "loop" THEN error ELSE "TaskDescribe")
    /\ UNCHANGED <<args, phase, now, cycle, list_resp, same_list, desc_req,
                   mapped, task_list, old_summary, stdout, renders, dumps,
                   unitVars>>

\* a describe failure reported after the header line has been printed
DescribeFails_header ==
    /\ pc = "describe"
    /\ \E response \in DescribeResponses(desc_req) :
          /\ ~response.ok
          /\ desc_resp' = response
          /\ same_desc' = (response = desc_resp)
    /\ stdout' = print_summary(<<>>, now)
    /\ renders' = renders + 1
    /\ pc' = "exit_err"
    /\ error' = "TaskDescribe"
    /\ UNCHANGED <<args, phase, now, cycle, list_resp, same_list, desc_req,
                   mapped, task_list, old_summary, dumps, unitVars>>

\* the describe call fails: context(TaskDescribe)? in any caller
DescribeFails ==
    /\ pc = "describe"
    /\ \E response \in DescribeResponses(desc_req) :
          /\ ~response.ok
          /\ desc_resp' = response
          /\ same_desc' = (response = desc_resp)
    /\ pc' = "exit_err"
    /\ error' = "TaskDescribe"
    /\ UNCHANGED <<args, phase, now, cycle, list_resp, same_list, desc_req,
                   mapped, task_list, old_summary, stdout, renders, dumps,
                   unitVars>>

\* detailed(): dump the payload, then main goes on to the summary
Detailed ==
    /\ pc = "describe"
    /\ phase = "detail"
    /\ \E response \in DescribeResponses(desc_req) :
          /\ response.ok
          /\ desc_resp' = response
          /\ same_desc' = (response = desc_resp)
    /\ dumps' = dumps + 1
    /\ phase' = SummaryPhase
    /\ cycle' = cycle + 1
    /\ pc' = "list"
    /\ UNCHANGED <<args, now, list_resp, same_list, desc_req, mapped,
                   task_list, old_summary, stdout, renders, error,
                   unitVars>>

\* the rest of task_summary once describe_tasks has answered
Summarized(response, clocks) ==
    /\ response.ok
    /\ desc_resp' = response
    /\ same_desc' = (response = desc_resp)
    /\ mapped' = Collect(response, clocks)
    /\ task_list' = sort_by(mapped')
    /\ now' = ClockAfter(clocks)

\* a comparison of the snapshots' lengths only
SnapshotsDiffer_length(old, new) == Len(old) # Len(new)

\* watch's test `old_summary != new_summary`
SnapshotsDiffer(old, new) == old # new

\* a one-shot branch that prints only what differs from the stored snapshot
OneShot_compare ==
    /\ pc = "describe"
    /\ phase = "one_shot"
    /\ \E response \in DescribeResponses(desc_req) :
          \E clocks \in ClockReadings(Len(unwrap_or_default(response.tasks))) :
             Summarized(response, clocks)
    /\ IF SnapshotsDiffer(old_summary, task_list')
       THEN /\ stdout' = print_summary(task_list', now')
            /\ renders' = renders + 1
       ELSE UNCHANGED <<stdout, renders>>
    /\ pc' = "exit_ok"
    /\ UNCHANGED <<args, phase, cycle, list_resp, same_list, desc_req,
                   old_summary, dumps, error, unitVars>>

\* main's one-shot branch: print and return Ok
OneShot ==
    /\ pc = "describe"
    /\ phase = "one_shot"
    /\ \E response \in DescribeResponses(desc_req) :
          \E clocks \in ClockReadings(Len(unwrap_or_default(response.tasks))) :
             Summarized(response, clocks)
    /\ stdout' = print_summary(task_list', now')
    /\ renders' = renders + 1
    /\ pc' = "exit_ok"
    /\ UNCHANGED <<args, phase, cycle, list_resp, same_list, desc_req,
                   old_summary, dumps, error, unitVars>>

\* watch before its loop: store and print the first snapshot, start the delay
WatchFirst ==
    /\ pc = "describe"
    /\ phase = "first"
    /\ \E response \in DescribeResponses(desc_req) :
          \E clocks \in ClockReadings(Len(unwrap_or_default(response.tasks))) :
             Summarized(response, clocks)
    /\ old_summary' = task_list'
    /\ stdout' = print_summary(task_list', now')
    /\ renders' = renders + 1
    /\ pc' = "sleep"
    /\ UNCHANGED <<args, phase, cycle, list_resp, same_list, desc_req,
                   dumps, error, unitVars>>

\* a loop body that prints a changed snapshot without storing it
WatchLoop_print_only ==
    /\ pc = "describe"
    /\ phase = "loop"
    /\ \E response \in DescribeResponses(desc_req) :
          \E clocks \in ClockReadings(Len(unwrap_or_default(response.tasks))) :
             Summarized(response, clocks)
    /\ IF SnapshotsDiffer(old_summary, task_list')
       THEN /\ stdout' = print_summary(task_list', now')
            /\ renders' = renders + 1
       ELSE UNCHANGED <<stdout, renders>>
    /\ old_summary' = old_summary
    /\ pc' = "sleep"
    /\ UNCHANGED <<args, phase, cycle, list_resp, same_list, desc_req,
                   dumps, error, unitVars>>

\* a loop that returns Ok once a fetch shows nothing new
WatchLoop_stop_unchanged ==
    /\ pc = "describe"
    /\ phase = "loop"
    /\ \E response \in DescribeResponses(desc_req) :
          \E clocks \in ClockReadings(Len(unwrap_or_default(response.tasks))) :
             Summarized(response, clocks)
    /\ IF SnapshotsDiffer(old_summary, task_list')
       THEN /\ stdout' = print_summary(task_list', now')
            /\ renders' = renders + 1
            /\ old_summary' = task_list'
            /\ pc' = "sleep"
       ELSE /\ UNCHANGED <<stdout, renders, old_summary>>
            /\ pc' = "exit_ok"
    /\ UNCHANGED <<args, phase, cycle, list_resp, same_list, desc_req,
                   dumps, error, unitVars>>

\* one pass of watch's loop body after the fetch, up to the next delay
WatchLoop ==
    /\ pc = "describe"
    /\ phase = "loop"
    /\ \E response \in DescribeResponses(desc_req) :
          \E clocks \in ClockReadings(Len(unwrap_or_default(response.tasks))) :
             Summarized(response, clocks)
    /\ IF SnapshotsDiffer(old_summary, task_list')
       THEN /\ stdout' = print_summary(task_list', now')
            /\ renders' = renders + 1
            /\ old_summary' = task_list'
       ELSE UNCHANGED <<stdout, renders, old_summary>>
    /\ pc' = "sleep"
    /\ UNCHANGED <<args, phase, cycle, list_resp, same_list, desc_req,
                   dumps, error, unitVars>>

\* delay_for(sleep_duration(2)) elapses: the timer fires on the whole second
\* Cadence seconds ahead, and the next fetch begins
Delay ==
    /\ pc = "sleep"
    /\ now + Cadence <= MaxNow
    /\ now' = now + Cadence
    /\ phase' = "loop"
    /\ cycle' = cycle + 1
    /\ pc' = "list"
    /\ UNCHANGED <<args, list_resp, same_list, desc_req, desc_resp,
                   same_desc, mapped, task_list, old_summary, stdout,
                   renders, dumps, error, unitVars>>

Next ==
    \/ Main
    \/ ListTasks
    \/ DescribeFails
    \/ Detailed
    \/ OneShot
    \/ WatchFirst
    \/ WatchLoop
    \/ Delay

Spec == Init /\ [][Next]_vars

(***************************************************************************)
(* newest_time on its own: every placement of absent and present values    *)
(* among the six event times.                                              *)
(***************************************************************************)
\* event times around a second boundary, with sub-millisecond digits
EventTimes ==
    {None, Some(Stamp(SecsPerHour, 999) + (SubMs - 1)),
     Some(Stamp(SecsPerHour + 1, 0)), Some(Stamp(SecsPerHour + 1, 0) + 1)}

InitNewest ==
    /\ times \in [1..6 -> EventTimes]
    /\ fs = <<>>
    /\ newest = None
    /\ now \in Clock0..(Clock0 + 1)
    /\ args = [detail |-> FALSE, one_shot |-> TRUE]
    /\ pc = "newest_time"
    /\ phase = "main"
    /\ cycle = 0
    /\ list_resp = NoResponse
    /\ same_list = FALSE
    /\ desc_req = <<>>
    /\ desc_resp = NoPayload
    /\ same_desc = FALSE
    /\ mapped = <<>>
    /\ task_list = <<>>
    /\ old_summary = <<>>
    /\ stdout = NoOutput
    /\ renders = 0
    /\ dumps = 0
    /\ error = "none"
    /\ SummaryIdle
    /\ ImageIdle
    /\ SleepIdle
    /\ ConvertIdle

NewestTime ==
    /\ pc = "newest_time"
    /\ newest = None
    /\ fs' = SortTimes(PresentTimes(times))
    /\ newest' = Some(newest_time(times, now))
    /\ UNCHANGED <<times, progVars, payload, summarized, image_ref, short,
                   wall_ms, duration, stamp, converted>>

SpecNewest == InitNewest /\ [][NewestTime]_vars

(***************************************************************************)
(* Properties.                                                             *)
(***************************************************************************)
\* a successful fetch of watch completes in this step
WatchFetched(ph) == pc = "describe" /\ phase = ph /\ pc' = "sleep"

\* equality of two snapshots, field by field and position by position
SameSnapshot(a, b) ==
    /\ Len(a) = Len(b)
    /\ \A i \in 1..Len(a) :
          /\ a[i].date_time.secs = b[i].date_time.secs
          /\ a[i].date_time.millis = b[i].date_time.millis
          /\ a[i].last_status = b[i].last_status
          /\ a[i].task_version = b[i].task_version
          /\ a[i].images = b[i].images

\* the step prints the snapshot it fetched / prints nothing
Rendered == renders' = renders + 1 /\ stdout' = print_summary(task_list', now')
NotRendered == renders' = renders /\ stdout' = stdout

\* C1: in watch the first fetched snapshot is always printed, and a later
\* cycle prints its snapshot if and only if that snapshot differs in some
\* field, position or length from the stored one.
C1_RenderIffChanged ==
    [][/\ WatchFetched("first") => Rendered
       /\ WatchFetched("loop") =>
             IF SameSnapshot(old_summary, task_list')
             THEN NotRendered ELSE Rendered]_vars

C1_Witness ==
    /\ ~args.one_shot
    /\ pc = "sleep"
    /\ cycle = 3
    /\ renders = 2

\* this cycle of watch's loop got the responses the cycle before it got
SameResponses == same_list /\ same_desc'

\* C2: a cycle of watch after the first whose list and describe responses
\* are those of the previous cycle prints nothing.
C2_UnchangedClusterPrintsNothing ==
    [][WatchFetched("loop") /\ SameResponses => NotRendered]_vars

\* C3: task_summary run again on the same responses returns the sequence
\* it returned before.
C3_SummaryRepeatable ==
    [][WatchFetched("loop") /\ SameResponses
          => SameSnapshot(task_list, task_list')]_vars

\* C4: in watch a failed list or describe call ends the run with that
\* error: nothing is printed by the failing cycle, and once the error has
\* reached main nothing happens any more (no further call, no retry, no
\* output).
C4_FailureEndsWatch ==
    [][/\ (phase \in {"first", "loop"} /\ pc = "list" /\ ~list_resp'.ok)
             => pc' = "exit_err" /\ error' = "TaskListLookup" /\ NotRendered
       /\ (phase \in {"first", "loop"} /\ pc = "describe" /\ ~desc_resp'.ok)
             => pc' = "exit_err" /\ error' = "TaskDescribe" /\ NotRendered
       /\ pc = "exit_err" => UNCHANGED vars]_vars

C4_Witness ==
    /\ pc = "exit_err"
    /\ phase = "loop"
    /\ error = "TaskDescribe"
    /\ renders >= 1

\* C5: the list step ends in ClusterNotFound exactly when the call
\* succeeded without a task-ID list, in TaskListLookup exactly when the
\* call failed, and with a present list (empty or not) in no error, the
\* describe request carrying that list.
C5_ClusterNotFoundExact ==
    [][pc = "list" =>
          /\ error' = "ClusterNotFound"
                <=> (list_resp'.ok /\ list_resp'.task_arns = None)
          /\ error' = "TaskListLookup" <=> ~list_resp'.ok
          /\ (list_resp'.ok /\ list_resp'.task_arns # None)
                => /\ error' = "none"
                   /\ pc' = "describe"
                   /\ desc_req' = list_resp'.task_arns[1]]_vars

C5_Witness ==
    /\ pc = "describe"
    /\ list_resp.ok
    /\ list_resp.task_arns = Some(<<>>)
    /\ error = "none"

\* C6: with --one-shot there is one fetch and no delay, nothing is stored
\* for comparison, and a successful fetch ends the run successfully with
\* exactly one print, that of the fetched snapshot.
C6_OneShotOnce ==
    args.one_shot =>
       /\ pc # "sleep"
       /\ phase \notin {"first", "loop"}
       /\ cycle <= 1
       /\ old_summary = <<>>
       /\ renders = (IF pc = "exit_ok" THEN 1 ELSE 0)
       /\ (phase = "one_shot" /\ pc \in {"exit_ok", "exit_err"}
             /\ tasks(list_resp).ok /\ desc_resp.ok)
             => pc = "exit_ok"
       /\ pc = "exit_ok"
             => /\ cycle = 1
                /\ error = "none"
                /\ stdout = print_summary(task_list, now)
                /\ ~ENABLED Next

C6_Witness ==
    /\ args.one_shot
    /\ pc = "exit_ok"
    /\ renders = 1
    /\ task_list = <<>>
    /\ desc_resp.tasks = Some(<<>>)

\* C7: when the list call returns a present, empty task-ID list,
\* task_summary returns an empty summary list and no error.
C7_EmptyClusterEmptySummary ==
    [][(pc = "describe" /\ phase # "detail" /\ desc_req = <<>>)
          => pc' # "exit_err" /\ task_list' = <<>>]_vars

\* a <= b for two NaiveDateTime values
NotAfter(a, b) ==
    a.secs < b.secs \/ (a.secs = b.secs /\ a.millis <= b.millis)

Orderings(n) ==
    {p \in [1..n -> 1..n] : \A i, j \in 1..n : i # j => p[i] # p[j]}

\* C8: task_summary returns one summary per described record, ascending
\* by date_time, summaries of equal date_time in the order of their
\* records.
C8_SortedStable ==
    /\ Len(task_list) = Len(mapped)
    /\ (pc \in {"sleep", "exit_ok"})
          => Len(task_list) = Len(unwrap_or_default(desc_resp.tasks))
    /\ \A i, j \in 1..Len(task_list) :
          i < j => NotAfter(task_list[i].date_time, task_list[j].date_time)
    /\ \E p \in Orderings(Len(mapped)) :
          /\ \A i \in 1..Len(mapped) : task_list[i] = mapped[p[i]]
          /\ \A i, j \in 1..Len(mapped) :
                (i < j /\ task_list[i].date_time = task_list[j].date_time)
                   => p[i] < p[j]

C8_Witness ==
    /\ pc = "sleep"
    /\ Len(task_list) = 2
    /\ task_list[1].date_time = task_list[2].date_time
    /\ task_list[1] # task_list[2]
    /\ mapped = task_list

\* the present values among the six event times
Present == {times[i][1] : i \in {j \in 1..6 : times[j] # None}}

\* C9: newest_time returns the largest event time that is present,
\* wherever it stands among the six, or the wall clock when none is
\* present, and always returns a valid NaiveDateTime.
C9_NewestIsMax ==
    newest # None =>
       /\ Present = {}
             => newest[1] = [secs |-> now, millis |-> 0]
       /\ Present # {}
             => \E t \in Present :
                   /\ \A u \in Present : u <= t
                   /\ newest[1] = naive_date_time(t)
       /\ newest[1].millis >= 0
       /\ newest[1].millis < 2 * MillisPerSec

C9_Witness ==
    /\ newest # None
    /\ times[6] = None
    /\ times[1] # None
    /\ times[3] # None
    /\ times[3][1] < times[1][1]
    /\ newest[1] = naive_date_time(times[1][1])
    /\ newest[1] # naive_date_time(times[3][1])

\* the snapshot the latest print_summary call was given
Printed == IF args.one_shot THEN task_list ELSE old_summary

\* milliseconds from date_time a to date_time b
Gap(a, b) == (b.secs - a.secs) * 1000 + b.millis - a.millis

\* C10: print_summary prints one line per summary, in order and with the
\* summary's fields; a line is underlined exactly when a next summary
\* exists whose date_time is one hour or more later.
C10_UnderlineOnHourGap ==
    renders > 0 =>
       /\ Len(stdout.lines) = Len(Printed)
       /\ \A i \in 1..Len(Printed) :
             /\ stdout.lines[i].text = Line(Printed[i])
             /\ stdout.lines[i].underline
                   <=> /\ i < Len(Printed)
                       /\ Gap(Printed[i].date_time, Printed[i + 1].date_time)
                             >= 3600 * 1000

C10_Witness ==
    /\ renders > 0
    /\ Len(Printed) = 2
    /\ Gap(Printed[1].date_time, Printed[2].date_time) = 3600 * 1000
    /\ stdout.lines[1].underline
    /\ ~stdout.lines[2].underline

\* C11: in watch the stored snapshot changes only in a step that prints,
\* and becomes the snapshot printed; from the first print on, the stored
\* snapshot is the one the latest print showed.
C11_StoredIsLastRendered ==
    [][~args.one_shot =>
          /\ old_summary' # old_summary
                => Rendered /\ old_summary' = task_list'
          /\ renders' # renders
                => Rendered /\ old_summary' = task_list'
          /\ renders' > 0
                => stdout'.lines = print_summary(old_summary', 0).lines]_vars

C11_Witness ==
    /\ ~args.one_shot
    /\ pc = "sleep"
    /\ cycle = 3
    /\ renders = 2
    /\ old_summary # <<>>
    /\ stdout.lines = print_summary(old_summary, 0).lines

(***************************************************************************)
(* task_summary on its own, after both calls have succeeded: every         *)
(* combination of absent fields in the record described.                   *)
(***************************************************************************)
\* longest container list of a described task
MaxContainers == 2

ImageRefs == {None, Some(<<"r", "/", "n">>)}

ContainerLists ==
    {None} \cup
    {Some(l) : l \in SeqsUpTo({Container(i) : i \in ImageRefs}, MaxContainers)}

FieldRecords ==
    {Task(ts, arn, status, cs) :
        ts \in {<<None, None, None, None, None, None>>,
                <<None, Some(T0), None, None, None, None>>},
        arn \in {None, Some(<<"a", "/", "f">>)},
        status \in {None, Some(<<"R">>)},
        cs \in ContainerLists}

\* successful describe responses: no task list, an empty one, one record
Payloads ==
    {[ok |-> TRUE, tasks |-> None]} \cup
    {[ok |-> TRUE, tasks |-> Some(l)] : l \in SeqsUpTo(FieldRecords, 1)}

InitSummary ==
    /\ payload \in Payloads
    /\ summarized = None
    /\ now \in Clock0..(Clock0 + 1)
    /\ ProgIdle("task_summary")
    /\ NewestIdle
    /\ ImageIdle
    /\ SleepIdle
    /\ ConvertIdle

\* l.203-222: map, collect, sort, Ok
SummarizePayload ==
    /\ pc = "task_summary"
    /\ summarized = None
    /\ LET records == unwrap_or_default(payload.tasks)
           clocks == [i \in 1..Len(records) |-> now]
       IN  summarized' = Some(Ok(sort_by(Collect(payload, clocks))))
    /\ UNCHANGED <<progVars, newestVars, payload, image_ref, short, wall_ms,
                   duration, stamp, converted>>

SpecSummary == InitSummary /\ [][SummarizePayload]_vars

\* C12: with both calls successful task_summary returns Ok whatever is
\* absent: no status gives "", no task definition gives "", no container
\* list gives no images, a container without image gives "" at its place,
\* and no task list gives no summaries.
C12_AbsentFieldsDefault ==
    summarized # <<>> =>
       LET result == summarized[1]
           records == IF payload.tasks = <<>> THEN <<>> ELSE payload.tasks[1]
       IN  /\ result.ok
           /\ Len(result.val) = Len(records)
           /\ \A i \in 1..Len(records) :
                 LET t == records[i]
                     v == result.val[i]
                 IN  /\ t.last_status = <<>> => v.last_status = <<>>
                     /\ t.last_status # <<>> => v.last_status = t.last_status[1]
                     /\ t.task_definition_arn = <<>> => v.task_version = <<>>
                     /\ t.containers = <<>> => v.images = <<>>
                     /\ t.containers # <<>> =>
                           /\ Len(v.images) = Len(t.containers[1])
                           /\ \A k \in 1..Len(v.images) :
                                 IF t.containers[1][k].image = <<>>
                                 THEN v.images[k] = <<>>
                                 ELSE v.images[k] = <<"n">>

C12_Witness ==
    /\ summarized # <<>>
    /\ payload.tasks # <<>>
    /\ Len(payload.tasks[1]) = 1
    /\ payload.tasks[1][1].last_status = <<>>
    /\ payload.tasks[1][1].task_definition_arn = <<>>
    /\ payload.tasks[1][1].created_at = <<>>
    /\ payload.tasks[1][1].containers =
          Some(<<Container(None), Container(Some(<<"r", "/", "n">>))>>)
    /\ summarized[1].val[1].images = <<<<>>, <<"n">>>>

(***************************************************************************)
(* short_image on its own: every image reference up to a length.           *)
(***************************************************************************)
\* longest image reference, in characters
MaxImageLen == 5

Chars == {"a", "b", Slash}

ImageArgs == {None} \cup {Some(s) : s \in SeqsUpTo(Chars, MaxImageLen)}

InitImage ==
    /\ image_ref \in ImageArgs
    /\ short = None
    /\ now = Clock0
    /\ ProgIdle("short_image")
    /\ NewestIdle
    /\ SummaryIdle
    /\ SleepIdle
    /\ ConvertIdle

ShortImage ==
    /\ pc = "short_image"
    /\ short = None
    /\ short' = Some(short_image(image_ref))
    /\ UNCHANGED <<progVars, newestVars, payload, summarized, image_ref,
                   wall_ms, duration, stamp, converted>>

SpecImage == InitImage /\ [][ShortImage]_vars

\* positions of '/' in a string
Slashes(s) == {i \in 1..Len(s) : s[i] = "/"}

FirstSlash(s) == CHOOSE i \in Slashes(s) : \A j \in Slashes(s) : i <= j

\* C13: short_image returns "" for no reference, the reference itself
\* when it holds no '/', and otherwise what follows the first '/': the
\* segments after the first, in order, with their separators.
C13_DropsFirstSegment ==
    short # <<>> =>
       IF image_ref = <<>> THEN short[1] = <<>>
       ELSE LET s == image_ref[1]
            IN  IF Slashes(s) = {} THEN short[1] = s
                ELSE /\ short[1] = SubSeq(s, FirstSlash(s) + 1, Len(s))
                     /\ Cardinality(Slashes(short[1]))
                           = Cardinality(Slashes(s)) - 1

C13_Witness ==
    /\ image_ref = <<<<"a", "/", "b", "/", "a">>>>
    /\ short = <<<<"b", "/", "a">>>>

\* a list or describe call of a summary cycle is pending
InFlight ==
    pc \in {"list", "describe"} /\ phase \in {"one_shot", "first", "loop"}

\* C14: a describe call is issued only as the list call of the same fetch
\* returns a task-ID list, and asks for exactly that list; a list step
\* that fails or finds no list issues no describe call; responses arrive
\* only for the call pending; no cycle starts while one is in flight.
C14_ListThenDescribe ==
    [][/\ pc' = "describe"
             => /\ pc = "list"
                /\ list_resp'.ok
                /\ list_resp'.task_arns # <<>>
                /\ desc_req' = list_resp'.task_arns[1]
       /\ (pc = "list" /\ (~list_resp'.ok \/ list_resp'.task_arns = <<>>))
             => /\ pc' = "exit_err"
                /\ desc_req' = desc_req
                /\ desc_resp' = desc_resp
       /\ list_resp' # list_resp => pc = "list"
       /\ desc_req' # desc_req => pc = "list"
       /\ desc_resp' # desc_resp => pc = "describe"
       /\ cycle' # cycle
             => /\ ~InFlight
                /\ cycle' = cycle + 1
                /\ pc' = "list"]_vars

C14_Witness ==
    /\ phase = "loop"
    /\ pc = "describe"
    /\ cycle = 2
    /\ list_resp.task_arns = <<<<2>>>>
    /\ desc_req = <<2>>

\* C15: whatever print_summary writes is written in a step in which the
\* describe call of a cycle whose list call succeeded returns successfully,
\* and it is the header with one line per described record; a step that
\* ends the run with an error writes nothing.
C15_NoPartialOutput ==
    [][/\ (renders' # renders \/ stdout' # stdout)
             => /\ pc = "describe"
                /\ phase \in {"one_shot", "first", "loop"}
                /\ tasks(list_resp).ok
                /\ desc_resp'.ok
                /\ Rendered
                /\ Len(stdout'.lines)
                      = Len(unwrap_or_default(desc_resp'.tasks))
       /\ (pc # "exit_err" /\ pc' = "exit_err") => NotRendered]_vars

C15_Witness ==
    /\ pc = "exit_err"
    /\ phase = "loop"
    /\ cycle = 2
    /\ error = "TaskListLookup"
    /\ renders = 1
    /\ Len(stdout.lines) = 2

\* the state the detail fetch leaves the summary in: nothing fetched,
\* stored or printed yet
NothingSummarized ==
    /\ renders = 0
    /\ stdout = NoOutput
    /\ old_summary = <<>>
    /\ task_list = <<>>
    /\ mapped = <<>>

\* C16: with --detail the payload is dumped once, by a list-then-describe
\* pair that precedes every summary cycle, after which main takes the
\* branch it takes without the flag, from the same summary state; a failed
\* detail fetch ends the run with its error and nothing printed.  Without
\* the flag nothing is ever dumped.
C16_DetailDumpsOnce ==
    /\ [](/\ dumps = (IF args.detail /\ phase \notin {"main", "detail"}
                      THEN 1 ELSE 0)
          /\ phase = "detail"
                => args.detail /\ cycle = 0 /\ NothingSummarized)
    /\ [][/\ dumps' # dumps
                => /\ phase = "detail"
                   /\ pc = "describe"
                   /\ tasks(list_resp).ok
                   /\ desc_resp'.ok
                   /\ dumps' = dumps + 1
                   /\ phase' = (IF args.one_shot THEN "one_shot" ELSE "first")
                   /\ pc' = "list"
                   /\ cycle' = 1
                   /\ NothingSummarized'
                   /\ UNCHANGED <<now, error>>
          /\ (phase = "detail" /\ pc = "list" /\ ~tasks(list_resp').ok)
                => pc' = "exit_err" /\ error' = tasks(list_resp').err
          /\ (phase = "detail" /\ pc = "describe" /\ ~desc_resp'.ok)
                => pc' = "exit_err" /\ error' = "TaskDescribe"
          /\ (phase = "detail" /\ pc = "exit_err") => UNCHANGED vars]_vars

C16_Witness ==
    /\ args.detail
    /\ ~args.one_shot
    /\ dumps = 1
    /\ pc = "sleep"
    /\ cycle = 2
    /\ renders = 2

(***************************************************************************)
(* sleep_duration on its own: every millisecond offset of the wall clock.  *)
(***************************************************************************)
\* now.timestamp_subsec_millis()
SubsecMillis(ms) == ms % MillisPerSec

\* a sleep to the next whole second only
sleep_duration_next_second(seconds, ms) ==
    LET now_millis == SubsecMillis(ms)
    IN  [underflow |-> MillisPerSec < now_millis,
         millis |-> MillisPerSec - now_millis]

\* Duration::from_millis(1000 * seconds - now_millis): the u64 subtraction
\* underflows when the difference is negative, and millis is then not
\* the value the build computes
sleep_duration(seconds, ms) ==
    LET now_millis == SubsecMillis(ms)
    IN  [underflow |-> MillisPerSec * seconds < now_millis,
         millis |-> MillisPerSec * seconds - now_millis]

InitSleep ==
    /\ wall_ms \in (Clock0 * MillisPerSec)..((Clock0 + 2) * MillisPerSec - 1)
    /\ duration = None
    /\ now = Clock0
    /\ ProgIdle("sleep_duration")
    /\ NewestIdle
    /\ SummaryIdle
    /\ ImageIdle
    /\ ConvertIdle

SleepDuration ==
    /\ pc = "sleep_duration"
    /\ duration = None
    /\ duration' = Some(sleep_duration(Cadence, wall_ms))
    /\ UNCHANGED <<progVars, newestVars, payload, summarized, image_ref,
                   short, wall_ms, stamp, converted>>

SpecSleep == InitSleep /\ [][SleepDuration]_vars

\* C17: for every millisecond offset 0..999 of the wall clock the delay is
\* 2000 ms less the offset, computed without underflow, more than 0 and at
\* most 2000 ms, and it ends on a whole second.
C17_SleepToWholeSecond ==
    duration # <<>> =>
       LET offset == wall_ms - 1000 * (wall_ms \div 1000)
           d == duration[1]
       IN  /\ offset \in 0..999
           /\ ~d.underflow
           /\ d.millis = 2000 - offset
           /\ d.millis > 0
           /\ d.millis <= 2000
           /\ (wall_ms + d.millis) % 1000 = 0

C17_Witness ==
    /\ duration # <<>>
    /\ wall_ms % 1000 = 999
    /\ duration[1].millis = 1001

(***************************************************************************)
(* The program with its timer: a delay that can elapse does elapse.        *)
(***************************************************************************)
FairSpec == Spec /\ WF_vars(Delay)

\* the wall clock of the model has room for one more delay
ClockHasRoom == now + Cadence <= MaxNow

\* C18: watch never returns Ok; it ends only in the step in which a list
\* or describe call of its own fails; a delay ends only by starting the
\* next fetch, and every delay begun (within the clock of the model) does
\* end that way.
C18_WatchRunsOn ==
    /\ [](~args.one_shot => pc # "exit_ok")
    /\ [][(phase \in {"first", "loop"} /\ pc' \in {"exit_ok", "exit_err"}
             /\ pc \notin {"exit_ok", "exit_err"})
            => /\ pc' = "exit_err"
               /\ \/ pc = "list" /\ ~tasks(list_resp').ok
                  \/ pc = "describe" /\ ~desc_resp'.ok]_vars
    /\ [][pc = "sleep"
            => pc' = "list" /\ phase' = "loop" /\ cycle' = cycle + 1]_vars
    /\ \A n \in 1..(MaxTicks + 1) :
          (pc = "sleep" /\ cycle = n /\ ClockHasRoom)
             ~> (pc = "list" /\ phase = "loop" /\ cycle = n + 1)

C18_Witness ==
    /\ ~args.one_shot
    /\ phase = "loop"
    /\ pc = "list"
    /\ cycle = 3
    /\ renders = 1

\* C19: watch leaves every fetch with the fetched snapshot stored, so
\* the stored and the latest fetched snapshot coincide at each delay; each
\* fetch that differs from the fetch before it is printed, and only those
\* after the first: the count of prints is 1 plus the count of fetches
\* that differ from their predecessor.
C19_StoredIsLastFetched ==
    [][~args.one_shot =>
          /\ pc' = "sleep" => old_summary' = task_list'
          /\ WatchFetched("first") => renders' = 1
          /\ WatchFetched("loop") =>
                IF SameSnapshot(task_list, task_list')
                THEN NotRendered
                ELSE Rendered /\ renders' = renders + 1]_vars

C19_Witness ==
    /\ ~args.one_shot
    /\ pc = "sleep"
    /\ cycle = 3
    /\ renders = 3
    /\ task_list = <<>>
    /\ old_summary = <<>>

(***************************************************************************)
(* naive_date_time on its own: every timestamp of the first two seconds,   *)
(* in units of 1/SubMs millisecond.                                        *)
(***************************************************************************)
InitConvert ==
    /\ stamp \in 0..(2 * UnitsPerSec - 1)
    /\ converted = None
    /\ now = Clock0
    /\ ProgIdle("naive_date_time")
    /\ NewestIdle
    /\ SummaryIdle
    /\ ImageIdle
    /\ SleepIdle

NaiveDateTime ==
    /\ pc = "naive_date_time"
    /\ converted = None
    /\ converted' = Some(naive_date_time(stamp))
    /\ UNCHANGED <<progVars, newestVars, payload, summarized, image_ref,
                   short, wall_ms, duration, stamp>>

SpecConvert == InitConvert /\ [][NaiveDateTime]_vars

\* C20: naive_date_time of a timestamp >= 0 gives its whole seconds and
\* its fraction rounded to the nearest millisecond, a value in 0..999; a
\* timestamp of s seconds and m milliseconds gives s and m.
C20_MillisBelowSecond ==
    converted # <<>> =>
       LET whole == stamp \div UnitsPerSec
           frac == stamp - whole * UnitsPerSec
           c == converted[1]
       IN  /\ c.secs = whole
           /\ c.millis \in 0..999
           /\ 2 * SubMs * c.millis <= 2 * frac + SubMs
           /\ 2 * frac - SubMs < 2 * SubMs * c.millis
           /\ frac % SubMs = 0 => c.millis = frac \div SubMs

====
